---- MODULE Spec2Model ----
(***************************************************************************)
(* Contact form of the React static site template: the validation          *)
(* utilities (src/utils/error.ts, src/utils/form.ts), the Effect-based     *)
(* submission pipeline (src/utils/effects.ts) and the Contact page          *)
(* component that drives them (src/pages/Contact.tsx).                      *)
(*                                                                         *)
(* A JavaScript string is a sequence of one-character strings.  Field      *)
(* names ("Name", "Email", "Message") and fixed message texts are opaque   *)
(* TLA+ strings; a template string is the tuple of its parts.              *)
(***************************************************************************)
EXTENDS Integers, Sequences, FiniteSets, TLC

----------------------------------------------------------------------------
(* Bounds of the model                                                     *)

\* longest run of leading (or trailing) whitespace in a generated field value
MaxPad == 1

\* longest name body in the inputs of the pure validation calls
MaxNameLen == 1

\* a message body in the inputs of the pure validation calls is at most
\* MinMessageLength + MaxExtra characters long
MaxExtra == 1

\* most ValidationResults handed to one combineValidationResults call
MaxResults == 2

\* most errors carried by one ValidationResult handed to the combinators
MaxErrors == 2

\* number of overlapping direct invocations of the pipeline
MaxRuns == 2

\* largest number carried by a Result handed to the Result combinators
MaxValue == 2

\* longest chain of chainResult steps
MaxSteps == 2

\* longest value handed to validateEmail on its own
MaxEmailLen == 5

\* most option sets handed to mergeSEOOptions
MaxSets == 3

\* longest item list handed to updateNavigationCurrent
MaxItems == 2

----------------------------------------------------------------------------
(* Strings                                                                 *)

WhiteSpace == {" "}

Spaces(n) == [i \in 1..n |-> " "]

Word(n) == [i \in 1..n |-> "a"]

RECURSIVE TrimStart(_)
TrimStart(s) ==
    IF s = <<>> THEN s
    ELSE IF Head(s) \in WhiteSpace THEN TrimStart(Tail(s)) ELSE s

RECURSIVE TrimEnd(_)
TrimEnd(s) ==
    IF s = <<>> THEN s
    ELSE IF s[Len(s)] \in WhiteSpace THEN TrimEnd(SubSeq(s, 1, Len(s) - 1)) ELSE s

\* String.prototype.trim
Trim(s) == TrimEnd(TrimStart(s))

----------------------------------------------------------------------------
(* src/utils/error.ts: validation primitives                               *)

createValidationError(field, message) == [field |-> field, message |-> message]

validationSuccess == [isValid |-> TRUE, errors |-> <<>>]

validationFailure(errors) == [isValid |-> FALSE, errors |-> errors]

\* Array.prototype.flatMap((result) => result.errors)
RECURSIVE FlatMapErrors(_)
FlatMapErrors(results) ==
    IF results = <<>> THEN <<>>
    ELSE Head(results).errors \o FlatMapErrors(Tail(results))

\* a combiner that stops at the first failing result
combineValidationResultsFirstFailure(results) ==
    LET failing == { i \in 1..Len(results) : Len(results[i].errors) > 0 }
    IN  IF failing = {} THEN validationSuccess
        ELSE validationFailure(results[CHOOSE i \in failing : \A j \in failing : i <= j].errors)

combineValidationResults(results) ==
    LET allErrors == FlatMapErrors(results)
    IN  IF Len(allErrors) = 0 THEN validationSuccess ELSE validationFailure(allErrors)

\* the character class [^\s@]
NotSpaceNotAt(c) == c \notin WhiteSpace /\ c # "@"

\* positions the matcher can stand at after  [^\s@]+  started at a position of P
AfterClassPlus(s, P) ==
    { q \in 2..(Len(s) + 1) :
        \E p \in P : p < q /\ \A k \in p..(q - 1) : NotSpaceNotAt(s[k]) }

\* positions the matcher can stand at after the literal c started at a position of P
AfterChar(s, P, c) == { p + 1 : p \in { x \in P : x <= Len(s) /\ s[x] = c } }

\* /^[^\s@]+@[^\s@]+\.[^\s@]+$/.test(v)
emailRegexTest(v) ==
    LET p1 == AfterClassPlus(v, {1})
        p2 == AfterChar(v, p1, "@")
        p3 == AfterClassPlus(v, p2)
        p4 == AfterChar(v, p3, ".")
        p5 == AfterClassPlus(v, p4)
    IN  (Len(v) + 1) \in p5

\* the predicates handed to validateField, as data: predicate(v)
ApplyPredicate(predicate, v) ==
    CASE predicate.test = "v.length > 0"          -> Len(v) > 0
      [] predicate.test = "emailRegex.test(v)"    -> emailRegexTest(v)
      [] predicate.test = "v.length >= minLength" -> Len(v) >= predicate.minLength
      [] predicate.test = "constant"              -> predicate.minLength = 1

Predicate(test, minLength) == [test |-> test, minLength |-> minLength]

validateField(value, fieldName, predicate, errorMessage) ==
    IF ApplyPredicate(predicate, value)
    THEN validationSuccess
    ELSE validationFailure(<<createValidationError(fieldName, errorMessage)>>)

\* a required check that looks at the value as typed
validateRequiredUntrimmed(value, fieldName) ==
    validateField(value, fieldName, Predicate("v.length > 0", 0),
                  <<fieldName, " is required">>)

validateRequired(value, fieldName) ==
    validateField(Trim(value), fieldName, Predicate("v.length > 0", 0),
                  <<fieldName, " is required">>)

\* an email check that trims the value before matching it
validateEmailTrimmed(email, fieldName) ==
    validateField(Trim(email), fieldName, Predicate("emailRegex.test(v)", 0),
                  <<fieldName, " must be a valid email address">>)

validateEmail(email, fieldName) ==
    validateField(email, fieldName, Predicate("emailRegex.test(v)", 0),
                  <<fieldName, " must be a valid email address">>)

\* a length check that measures the trimmed value
validateMinLengthTrimmed(value, fieldName, minLength) ==
    validateField(Trim(value), fieldName, Predicate("v.length >= minLength", minLength),
                  <<fieldName, " must be at least ", minLength, " characters long">>)

validateMinLength(value, fieldName, minLength) ==
    validateField(value, fieldName, Predicate("v.length >= minLength", minLength),
                  <<fieldName, " must be at least ", minLength, " characters long">>)

----------------------------------------------------------------------------
(* src/utils/form.ts                                                       *)

MinMessageLength == 10

createEmptyContactForm == [name |-> <<>>, email |-> <<>>, message |-> <<>>]

validateName(name) == validateRequired(name, "Name")

\* an email validator that runs the format check whatever the required check said
validateEmailFieldBothChecks(email) ==
    combineValidationResults(<<validateRequired(email, "Email"),
                               validateEmail(email, "Email")>>)

validateEmailField(email) ==
    LET requiredResult == validateRequired(email, "Email")
    IN  IF ~requiredResult.isValid THEN requiredResult
        ELSE validateEmail(email, "Email")

validateMessage(message) ==
    LET requiredResult == validateRequired(message, "Message")
    IN  IF ~requiredResult.isValid THEN requiredResult
        ELSE validateMinLength(message, "Message", MinMessageLength)

validateContactForm(formData) ==
    combineValidationResults(<< validateName(formData.name),
                                validateEmailField(formData.email),
                                validateMessage(formData.message) >>)

\* a sanitizer that takes one blank off each end of a field
StripOne(s) ==
    LET t == IF s # <<>> /\ s[1] \in WhiteSpace THEN Tail(s) ELSE s
    IN  IF t # <<>> /\ t[Len(t)] \in WhiteSpace THEN SubSeq(t, 1, Len(t) - 1) ELSE t

sanitizeFormDataOneBlank(formData) ==
    [name    |-> StripOne(formData.name),
     email   |-> StripOne(formData.email),
     message |-> StripOne(formData.message)]

sanitizeFormData(formData) ==
    [name    |-> Trim(formData.name),
     email   |-> Trim(formData.email),
     message |-> Trim(formData.message)]

\* a submission prepared without sanitizing
prepareFormSubmissionRaw(formData) == formData

prepareFormSubmission(formData) == sanitizeFormData(formData)

----------------------------------------------------------------------------
(* State                                                                   *)

VARIABLES
    call,               \* a call of one utility function: its argument and, once returned, its value
    formData,           \* Contact: useState<ContactFormData>
    validationResult,   \* Contact: useState<ValidationResult>
    isSubmitting,       \* Contact: useState(false)
    attempt,            \* Contact: the latest run of handleSubmit (its locals and its position)
    runs,               \* the invocations of handleFormSubmissionEffect through runEffect
    effects             \* the console and alert calls made so far, in order

vars == <<call, formData, validationResult, isSubmitting, attempt, runs, effects>>

NoCall == [fn |-> "none", arg |-> <<>>, out |-> <<>>]

NoAttempt ==
    [pc |-> "idle", trace |-> <<>>, form |-> createEmptyContactForm,
     submissionData |-> createEmptyContactForm]

\* the state of the page and of the pipeline right after the component mounts
Mounted ==
    /\ formData = createEmptyContactForm
    /\ validationResult = [isValid |-> TRUE, errors |-> <<>>]
    /\ isSubmitting = FALSE
    /\ attempt = NoAttempt
    /\ runs = <<>>
    /\ effects = <<>>

----------------------------------------------------------------------------
(* Inputs of the pure validation calls                                     *)

NameA == <<"a">>

NameB == <<"b">>

GoodEmail == <<"a", "@", "a", ".", "a">>

\* the names typed into the form
NameInputs == {<<>>} \cup { Spaces(l) \o NameA : l \in 0..MaxPad }

Padded(body) == { Spaces(l) \o body \o Spaces(t) : l \in 0..MaxPad, t \in 0..MaxPad }

NameValues == UNION { Padded(Word(b)) : b \in 0..MaxNameLen }

EmailCores ==
    { <<>>,
      <<"a", "@", "a">>,
      <<"a", "@", "a", ".", "a">>,
      <<"a", "@", "a", "@", "a", ".", "a">>,
      <<"a", " ", "a", "@", "a", ".", "a">>,
      <<"a", "@", ".", "a">> }

EmailValues == { Spaces(l) \o core : l \in 0..MaxPad, core \in EmailCores }

\* every string of a letter, a blank, '@' and '.' up to MaxEmailLen characters
EmailStrings == UNION { [1..n -> {"a", " ", "@", "."}] : n \in 0..MaxEmailLen }

\* the minimum lengths asked of validateMinLength
MinLengths == {-1, 0, 1, MinMessageLength}

\* message bodies: b letters, or two letters with blanks between them, around
\* the minimum length
MessageBodies ==
    { Word(b) : b \in 0..(MinMessageLength + MaxExtra) }
        \cup { Word(1) \o Spaces(b - 2) \o Word(1) :
                   b \in {MinMessageLength - 1, MinMessageLength} }

MessageValues == UNION { Padded(body) : body \in MessageBodies }

FormValues ==
    [name : NameInputs, email : EmailValues, message : MessageValues]

ErrorValues ==
    { createValidationError("Name", <<"Name", " is required">>),
      createValidationError("Email", <<"Email", " must be a valid email address">>) }

ErrorSeqs == UNION { [1..n -> ErrorValues] : n \in 0..MaxErrors }

\* the ValidationResults the constructors of error.ts can build
ResultValues == {validationSuccess} \cup { validationFailure(e) : e \in ErrorSeqs }

ResultSeqs == UNION { [1..n -> ResultValues] : n \in 0..MaxResults }

CallsOf(fn, args) == { [fn |-> fn, arg |-> a, out |-> <<>>] : a \in args }

ValidationCalls ==
    CallsOf("validationSuccess", {<<>>})
        \cup CallsOf("validationFailure", ErrorSeqs)
        \cup CallsOf("validateField",
                     [value : NameValues, fieldName : {"Name"}, holds : BOOLEAN])
        \cup CallsOf("combineValidationResults", ResultSeqs)
        \cup CallsOf("validateRequired",
                     [value : NameValues, fieldName : {"Name", "Email"}])
        \cup CallsOf("validateEmail",
                     [value : EmailValues \cup EmailStrings, fieldName : {"Email"}])
        \cup CallsOf("validateMinLength",
                     [value : MessageValues, fieldName : {"Message"},
                      minLength : MinLengths])
        \cup CallsOf("validateContactForm", FormValues)

----------------------------------------------------------------------------
(* The pure validation calls: each action returns from one pending call    *)

Pending(fn) == call.fn = fn /\ call.out = <<>>

Return(value) ==
    /\ call' = [call EXCEPT !.out = <<value>>]
    /\ UNCHANGED <<formData, validationResult, isSubmitting, attempt, runs, effects>>

CallValidationSuccess ==
    /\ Pending("validationSuccess")
    /\ Return(validationSuccess)

CallValidationFailure ==
    /\ Pending("validationFailure")
    /\ Return(validationFailure(call.arg))

CallValidateField ==
    /\ Pending("validateField")
    /\ Return(validateField(call.arg.value, call.arg.fieldName,
                            Predicate("constant", IF call.arg.holds THEN 1 ELSE 0),
                            <<call.arg.fieldName, " is wrong">>))

CallCombineValidationResults ==
    /\ Pending("combineValidationResults")
    /\ Return(combineValidationResults(call.arg))

CallValidateRequired ==
    /\ Pending("validateRequired")
    /\ Return(validateRequired(call.arg.value, call.arg.fieldName))

CallValidateEmail ==
    /\ Pending("validateEmail")
    /\ Return(validateEmail(call.arg.value, call.arg.fieldName))

CallValidateMinLength ==
    /\ Pending("validateMinLength")
    /\ Return(validateMinLength(call.arg.value, call.arg.fieldName, call.arg.minLength))

CallValidateContactForm ==
    /\ Pending("validateContactForm")
    /\ Return(validateContactForm(call.arg))

InitValidation ==
    /\ call \in ValidationCalls
    /\ Mounted

NextValidation ==
    \/ CallValidationSuccess
    \/ CallValidationFailure
    \/ CallValidateField
    \/ CallCombineValidationResults
    \/ CallValidateRequired
    \/ CallValidateEmail
    \/ CallValidateMinLength
    \/ CallValidateContactForm

SpecValidation == InitValidation /\ [][NextValidation]_vars

\* the call of fn has returned
Returned(fn) == call.fn = fn /\ call.out # <<>>

Out == call.out[1]

----------------------------------------------------------------------------
(* Vocabulary of the properties                                            *)

IsBlank(s) == \A i \in 1..Len(s) : s[i] \in WhiteSpace

\* number of characters from the first to the last non-blank character
TrimmedLength(s) ==
    IF IsBlank(s) THEN 0
    ELSE LET solid == { i \in 1..Len(s) : s[i] \notin WhiteSpace }
             first == CHOOSE i \in solid : \A j \in solid : i <= j
             last  == CHOOSE i \in solid : \A j \in solid : j <= i
         IN  last - first + 1

\* local@domain.tld: an '@' at i, a '.' at j, something before, between and
\* after them, and neither whitespace nor another '@' anywhere
HasEmailShape(s) ==
    \E i \in 1..Len(s), j \in 1..Len(s) :
        /\ s[i] = "@" /\ s[j] = "."
        /\ 1 < i /\ i + 1 < j /\ j < Len(s)
        /\ \A k \in (1..Len(s)) \ {i} : s[k] \notin WhiteSpace /\ s[k] # "@"

----------------------------------------------------------------------------
(* Properties of validateContactForm                                        *)

\* C1: validateContactForm(form).isValid holds iff name, email and message are
\* non-blank after trimming, the email has the email shape, and the TRIMMED
\* message is at least 10 characters long.
C1_ValidIffFieldsOkAndTrimmedMessageLongEnough ==
    Returned("validateContactForm") =>
        ( Out.isValid <=>
            /\ ~IsBlank(call.arg.name)
            /\ ~IsBlank(call.arg.email)
            /\ ~IsBlank(call.arg.message)
            /\ HasEmailShape(call.arg.email)
            /\ TrimmedLength(call.arg.message) >= MinMessageLength )

\* what the code computes instead: the length test is on the untrimmed message
ValidIffFieldsOkAndRawMessageLongEnough ==
    Returned("validateContactForm") =>
        ( Out.isValid <=>
            /\ ~IsBlank(call.arg.name)
            /\ ~IsBlank(call.arg.email)
            /\ ~IsBlank(call.arg.message)
            /\ HasEmailShape(call.arg.email)
            /\ Len(call.arg.message) >= MinMessageLength )

----------------------------------------------------------------------------
(* Properties of the validation primitives                                  *)

ValidationOperations ==
    { "validationSuccess", "validationFailure", "validateField",
      "combineValidationResults", "validateRequired", "validateEmail",
      "validateMinLength", "validateContactForm" }

\* C9: every ValidationResult returned by a validation operation, for every
\* input, has isValid = (errors is empty).
C9_IsValidIffNoErrors ==
    (call.fn \in ValidationOperations /\ call.out # <<>>) =>
        (Out.isValid <=> (Len(Out.errors) = 0))

\* the same for every operation but the bare constructor validationFailure
IsValidIffNoErrorsButConstructor ==
    (call.fn \in ValidationOperations \ {"validationFailure"} /\ call.out # <<>>) =>
        (Out.isValid <=> (Len(Out.errors) = 0))

\* number of errors carried by the first n results
RECURSIVE ErrorsBefore(_, _)
ErrorsBefore(results, n) ==
    IF n = 0 THEN 0 ELSE ErrorsBefore(results, n - 1) + Len(results[n].errors)

\* C10: the errors of combineValidationResults(results) are the errors of
\* results[1], then those of results[2], ... each list in its own order, with
\* nothing dropped or repeated; isValid holds iff there is no error at all.
C10_CombineKeepsEveryErrorInInputOrder ==
    Returned("combineValidationResults") =>
        LET results == call.arg
            total   == ErrorsBefore(results, Len(results))
        IN  /\ Len(Out.errors) = total
            /\ \A i \in 1..Len(results) : \A k \in 1..Len(results[i].errors) :
                   Out.errors[ErrorsBefore(results, i - 1) + k] = results[i].errors[k]
            /\ Out.isValid <=> (total = 0)

\* a combine call that returned with two failing inputs carrying different errors
C10_Witness ==
    /\ Returned("combineValidationResults")
    /\ \E i, j \in 1..Len(call.arg) :
           /\ i < j
           /\ Len(call.arg[i].errors) > 0 /\ Len(call.arg[j].errors) > 0
           /\ call.arg[i].errors[1] # call.arg[j].errors[1]

----------------------------------------------------------------------------
(* src/utils/effects.ts: the submission pipeline                           *)
(*                                                                         *)
(* Effect.sync(thunk): a thunk that throws ends the fiber with a defect    *)
(* (Cause.Die).  Effect.flatMap, Effect.map and Effect.tap run on success  *)
(* only; Effect.catchAll handles failures (Cause.Fail) and lets a defect   *)
(* through; Effect.runPromise rejects when the fiber ends with a failure   *)
(* or a defect.                                                            *)

\* the thunk of the leading Effect.sync: returns form or throws
integrityCheck(form) ==
    IF Trim(form.name) = <<>> THEN [threw |-> TRUE, error |-> "Name is required"]
    ELSE IF Trim(form.email) = <<>> THEN [threw |-> TRUE, error |-> "Email is required"]
    ELSE IF Trim(form.message) = <<>> THEN [threw |-> TRUE, error |-> "Message is required"]
    ELSE [threw |-> FALSE, error |-> "none"]

\* submitContactForm up to its suspension point: the fiber dies in the
\* integrity check, or issues simulateApiCall(data) and waits for it
submitContactFormBegin(form) ==
    IF integrityCheck(form).threw
    THEN [exit |-> "die", defect |-> integrityCheck(form).error]
    ELSE [exit |-> "suspend", defect |-> "none"]

\* submitContactForm from the settling of the remote call on: Effect.map on
\* resolve; the catch of Effect.tryPromise, then Effect.catchAll, on reject
submitContactFormSettle(data, outcome) ==
    IF outcome = "resolve"
    THEN [success |-> TRUE, data |-> data]
    ELSE [success |-> FALSE, error |-> <<"Form submission failed: ", "rejected">>]

logFormSubmission(data) ==
    [kind |-> "console.log",
     payload |-> [name |-> data.name, email |-> data.email, message |-> data.message]]

showSuccessAlert ==
    [kind |-> "alert", payload |-> <<"Thank you for your message! This is a demo form.">>]

showErrorAlert(message) == [kind |-> "alert", payload |-> <<"Error: ", message>>]

logError(error) == [kind |-> "console.error", payload |-> error]

\* a tap that acknowledges every result, successful or not
tapSideEffectsAlwaysThanks(result) ==
    IF result.success
    THEN <<logFormSubmission(result.data), showSuccessAlert>>
    ELSE <<logError(result.error), showSuccessAlert>>

\* the Effect.tap of handleFormSubmissionEffect: the side effects, in order
tapSideEffects(result) ==
    IF result.success
    THEN <<logFormSubmission(result.data), showSuccessAlert>>
    ELSE <<logError(result.error), showErrorAlert(result.error)>>

\* what the run i adds to the record of outside calls when the remote call
\* settles: the result is built first, then the side effects run
SettleEvents(i, result) ==
    LET side == tapSideEffects(result)
    IN  <<[run |-> i, kind |-> "result", payload |-> result]>>
            \o [k \in 1..Len(side) |->
                    [run |-> i, kind |-> side[k].kind, payload |-> side[k].payload]]

\* runEffect(handleFormSubmissionEffect(form)) up to the first suspension
StartRun(i, form) ==
    LET begun == submitContactFormBegin(form)
    IN  IF begun.exit = "die"
        THEN [run |-> [data |-> form, pc |-> "rejected", defect |-> begun.defect,
                       api |-> "none", result |-> <<>>],
              events |-> <<>>]
        ELSE [run |-> [data |-> form, pc |-> "awaitApi", defect |-> "none",
                       api |-> "pending", result |-> <<>>],
              events |-> <<[run |-> i, kind |-> "simulateApiCall", payload |-> form]>>]

\* a pipeline that keeps the form in one slot shared by all invocations
SettleRunSharedSlot(i, run, outcome) ==
    LET result == submitContactFormSettle(runs[Len(runs)].data, outcome)
    IN  [run |-> [run EXCEPT !.pc = "fulfilled", !.api = outcome, !.result = <<result>>],
         events |-> SettleEvents(i, result)]

\* the same run when its remote call settles with outcome
SettleRun(i, run, outcome) ==
    LET result == submitContactFormSettle(run.data, outcome)
    IN  [run |-> [run EXCEPT !.pc = "fulfilled", !.api = outcome, !.result = <<result>>],
         events |-> SettleEvents(i, result)]

----------------------------------------------------------------------------
(* The pipeline invoked directly, up to MaxRuns invocations overlapping     *)

PipelineInputs ==
    [name    : {<<>>, NameA, NameB},
     email   : {GoodEmail},
     message : {Spaces(1), Word(1), Word(MinMessageLength)}]

ApiOutcomes == {"resolve", "reject"}

ComponentIdle == <<call, formData, validationResult, isSubmitting, attempt>>

\* a caller runs runEffect(handleFormSubmissionEffect(form))
Invoke(form) ==
    /\ Len(runs) < MaxRuns
    /\ LET started == StartRun(Len(runs) + 1, form)
       IN  /\ runs' = Append(runs, started.run)
           /\ effects' = effects \o started.events
    /\ UNCHANGED ComponentIdle

\* the promise of simulateApiCall of run i resolves
ApiResolves(i) ==
    /\ runs[i].pc = "awaitApi"
    /\ LET settled == SettleRun(i, runs[i], "resolve")
       IN  /\ runs' = [runs EXCEPT ![i] = settled.run]
           /\ effects' = effects \o settled.events
    /\ UNCHANGED ComponentIdle

\* the promise of the remote call of run i rejects
ApiRejects(i) ==
    /\ runs[i].pc = "awaitApi"
    /\ LET settled == SettleRun(i, runs[i], "reject")
       IN  /\ runs' = [runs EXCEPT ![i] = settled.run]
           /\ effects' = effects \o settled.events
    /\ UNCHANGED ComponentIdle

InitPipeline ==
    /\ call = NoCall
    /\ Mounted

NextPipeline ==
    \/ \E form \in PipelineInputs : Invoke(form)
    \/ \E i \in 1..Len(runs) : ApiResolves(i)
    \/ \E i \in 1..Len(runs) : ApiRejects(i)

SpecPipeline == InitPipeline /\ [][NextPipeline]_vars

----------------------------------------------------------------------------
(* src/pages/Contact.tsx: the Contact component                             *)
(*                                                                         *)
(* An event handler runs to completion before the next event.  handleSubmit *)
(* suspends twice: at the dynamic import of the effects module and at the   *)
(* promise of runEffect; the continuation after each await runs in one     *)
(* turn.  The submit and reset buttons are disabled while isSubmitting; the *)
(* three fields are never disabled.  attempt, runs and effects describe     *)
(* the latest submit: handleSubmit starts them afresh.                      *)

EmailInputs == { <<>>, <<"a", "@", "a">>, GoodEmail, GoodEmail \o Spaces(1) }

MessageInputs ==
    { Spaces(l) \o Word(b) :
        l \in 0..MaxPad, b \in {0, MinMessageLength - 1, MinMessageLength} }

FieldInputs == [name |-> NameInputs, email |-> EmailInputs, message |-> MessageInputs]

\* a submit that goes on whatever the validation said
proceedsToSubmitAlways(validation) == TRUE

\* handleSubmit goes past the early return
proceedsToSubmit(validation) == validation.isValid

\* a completion that resets the form whatever the result
resetsFormAlways(result) == TRUE

\* the completion of handleSubmit resets the form
resetsForm(result) == result.success

\* the catch block of handleSubmit
CatchEvents ==
    << [run |-> 0, kind |-> "console.error", payload |-> <<"thrown">>],
       [run |-> 0, kind |-> "alert",
        payload |-> <<"There was an error submitting your message. Please try again.">>] >>

\* onChange of a field: setFormData((prev) => ({ ...prev, [field]: value }))
HandleFieldChange(field, value) ==
    /\ formData' = [formData EXCEPT ![field] = value]
    /\ UNCHANGED <<call, validationResult, isSubmitting, attempt, runs, effects>>

\* a submit button that stays enabled during a submission
submitNeverDisabled == FALSE

\* <button type="submit" disabled={isSubmitting}>
submitDisabled == isSubmitting

\* <button type="button" onClick={handleReset} disabled={isSubmitting}>
resetDisabled == isSubmitting

\* click on Reset
HandleReset ==
    /\ ~resetDisabled
    /\ formData' = createEmptyContactForm
    /\ UNCHANGED <<call, validationResult, isSubmitting, attempt, runs, effects>>

\* submit of the form, up to the early return or to the await of the import
HandleSubmit ==
    /\ ~submitDisabled
    /\ LET validation == validateContactForm(formData)
       IN  /\ validationResult' = validation
           /\ IF ~proceedsToSubmit(validation)
              THEN /\ attempt' = [pc |-> "done", trace |-> <<"Validating", "Invalid">>,
                                  form |-> formData,
                                  submissionData |-> createEmptyContactForm]
                   /\ UNCHANGED isSubmitting
              ELSE /\ isSubmitting' = TRUE
                   /\ attempt' = [pc |-> "importing",
                                  trace |-> <<"Validating", "Submitting">>,
                                  form |-> formData,
                                  submissionData |-> prepareFormSubmission(formData)]
    /\ runs' = <<>>
    /\ effects' = <<>>
    /\ UNCHANGED <<call, formData>>

\* a catch block with no finally block after it
ThrownWithoutFinally(events) ==
    /\ effects' = effects \o events \o CatchEvents
    /\ attempt' = [attempt EXCEPT !.pc = "done", !.trace = Append(@, "Failed")]
    /\ UNCHANGED <<formData, validationResult, isSubmitting>>

\* catch and finally of handleSubmit
Thrown(events) ==
    /\ effects' = effects \o events \o CatchEvents
    /\ isSubmitting' = FALSE
    /\ attempt' = [attempt EXCEPT !.pc = "done", !.trace = Append(@, "Failed")]
    /\ UNCHANGED <<formData, validationResult>>

\* the import resolves and runEffect(handleFormSubmissionEffect(submissionData))
\* starts; a promise rejected at once goes to the catch block
ImportResolves ==
    /\ attempt.pc = "importing"
    /\ LET started == StartRun(1, attempt.submissionData)
       IN  /\ runs' = <<started.run>>
           /\ IF started.run.pc = "rejected"
              THEN Thrown(started.events)
              ELSE /\ effects' = effects \o started.events
                   /\ attempt' = [attempt EXCEPT !.pc = "awaiting"]
                   /\ UNCHANGED <<formData, validationResult, isSubmitting>>
    /\ UNCHANGED call

\* the import of the effects module fails
ImportRejects ==
    /\ attempt.pc = "importing"
    /\ Thrown(<<>>)
    /\ UNCHANGED <<call, runs>>

\* the remote call settles, the pipeline ends with a result and handleSubmit
\* goes on after its await: reset on success, then the finally block
RemoteSettles(outcome) ==
    /\ attempt.pc = "awaiting"
    /\ LET settled == SettleRun(1, runs[1], outcome)
           result  == settled.run.result[1]
       IN  /\ runs' = <<settled.run>>
           /\ effects' = effects \o settled.events
           /\ IF resetsForm(result)
              THEN /\ formData' = createEmptyContactForm
                   /\ validationResult' = [isValid |-> TRUE, errors |-> <<>>]
              ELSE UNCHANGED <<formData, validationResult>>
           /\ attempt' = [attempt EXCEPT
                             !.pc = "done",
                             !.trace = Append(@, IF result.success THEN "Success"
                                                 ELSE "Failed")]
    /\ isSubmitting' = FALSE
    /\ UNCHANGED call

RemoteResolves == RemoteSettles("resolve")

RemoteRejects == RemoteSettles("reject")

Init ==
    /\ call = NoCall
    /\ Mounted

Next ==
    \/ \E field \in DOMAIN FieldInputs : \E value \in FieldInputs[field] :
           HandleFieldChange(field, value)
    \/ HandleReset
    \/ HandleSubmit
    \/ ImportResolves
    \/ ImportRejects
    \/ RemoteResolves
    \/ RemoteRejects

Spec == Init /\ [][Next]_vars

\* the promise of the dynamic import settles, and the timer of
\* simulateApiCall fires
Fairness ==
    /\ WF_vars(ImportResolves \/ ImportRejects)
    /\ WF_vars(RemoteResolves \/ RemoteRejects)

SpecLive == Spec /\ Fairness

----------------------------------------------------------------------------
(* Properties of the pipeline                                               *)

Runs == 1..Len(runs)

\* positions, in the record of outside calls, of the calls of kind k made by run i
At(i, k) == { p \in 1..Len(effects) : effects[p].run = i /\ effects[p].kind = k }

IsErrorAlert(e) == e.kind = "alert" /\ e.payload[1] = "Error: "

IsSuccessAlert(e) == e.kind = "alert" /\ e.payload[1] # "Error: "

\* positions of the calls of the success path (log the submission, thank) of run i
SuccessPath(i) ==
    At(i, "console.log") \cup { p \in At(i, "alert") : IsSuccessAlert(effects[p]) }

\* positions of the calls of the failure path (log the error, show it) of run i
FailurePath(i) ==
    At(i, "console.error") \cup { p \in At(i, "alert") : IsErrorAlert(effects[p]) }

\* C2: for every input, blank fields included, and every outcome of the remote
\* call, the pipeline ends with a SubmissionResult and never rejects to its
\* caller; every failure is a result with success = FALSE.
C2_PipelineNeverRejects ==
    \A i \in Runs :
        /\ runs[i].pc # "rejected"
        /\ runs[i].pc = "fulfilled" => Len(runs[i].result) = 1

\* what holds instead: the promise rejects exactly for the inputs with a blank field
RejectsIffSomeFieldBlank ==
    \A i \in Runs :
        runs[i].pc = "rejected" <=>
            (IsBlank(runs[i].data.name) \/ IsBlank(runs[i].data.email)
                \/ IsBlank(runs[i].data.message))

\* C5: the log and alert calls of a submission come after its result was
\* computed; the success path runs iff the result has success = TRUE, the
\* failure path iff it has success = FALSE; once the result is there exactly
\* one path has run, in full, and never both.
C5_SideEffectsFollowTheResultOnOnePath ==
    \A i \in Runs :
        /\ \A p \in SuccessPath(i) \cup FailurePath(i) :
               \E r \in At(i, "result") : r < p
        /\ SuccessPath(i) # {} <=> (Len(runs[i].result) = 1 /\ runs[i].result[1].success)
        /\ FailurePath(i) # {} <=> (Len(runs[i].result) = 1 /\ ~runs[i].result[1].success)
        /\ ~(SuccessPath(i) # {} /\ FailurePath(i) # {})
        /\ Len(runs[i].result) = 1 =>
               \/ /\ Cardinality(At(i, "console.log")) = 1
                  /\ Cardinality(SuccessPath(i)) = 2
                  /\ FailurePath(i) = {}
               \/ /\ Cardinality(At(i, "console.error")) = 1
                  /\ Cardinality(FailurePath(i)) = 2
                  /\ SuccessPath(i) = {}

\* one submission has succeeded and another has failed
C5_Witness ==
    \E i, j \in Runs :
        /\ runs[i].pc = "fulfilled" /\ runs[i].result[1].success
        /\ runs[j].pc = "fulfilled" /\ ~runs[j].result[1].success
        /\ SuccessPath(i) # {} /\ FailurePath(j) # {}

\* the remote calls of i and j were both issued before either settled
Overlapped(i, j) ==
    /\ i # j
    /\ At(i, "simulateApiCall") # {} /\ At(j, "simulateApiCall") # {}
    /\ \A p \in At(i, "simulateApiCall") \cup At(j, "simulateApiCall") :
           \A r \in At(i, "result") \cup At(j, "result") : p < r

\* C8: of invocations that overlap, each one ends with its own result: one
\* remote call issued with its own input, one result, carrying its own input
\* when the call resolved, and side effects that show its own data; no
\* invocation is dropped, merged with or changed by another.
C8_OverlappingRunsKeepTheirOwnData ==
    \A i \in Runs :
        runs[i].pc # "rejected" =>
            /\ Cardinality(At(i, "simulateApiCall")) = 1
            /\ \A p \in At(i, "simulateApiCall") : effects[p].payload = runs[i].data
            /\ runs[i].pc = "fulfilled" =>
                   /\ Cardinality(At(i, "result")) = 1
                   /\ \A p \in At(i, "result") :
                          /\ effects[p].payload.success = runs[i].result[1].success
                          /\ effects[p].payload.success =>
                                 effects[p].payload.data = runs[i].data
                   /\ \A p \in At(i, "console.log") :
                          /\ effects[p].payload.name = runs[i].data.name
                          /\ effects[p].payload.email = runs[i].data.email
                          /\ effects[p].payload.message = runs[i].data.message
                   /\ runs[i].result[1].success => Cardinality(At(i, "console.log")) = 1
            /\ runs[i].pc = "awaitApi" => At(i, "result") = {}

\* two overlapping invocations with different inputs have both succeeded
C8_Witness ==
    \E i, j \in Runs :
        /\ Overlapped(i, j)
        /\ runs[i].data # runs[j].data
        /\ runs[i].pc = "fulfilled" /\ runs[i].result[1].success
        /\ runs[j].pc = "fulfilled" /\ runs[j].result[1].success

----------------------------------------------------------------------------
(* Properties of the Contact component                                      *)

Valid == [isValid |-> TRUE, errors |-> <<>>]

\* t is s without its leading and trailing whitespace
IsTrimOf(t, s) ==
    /\ t # <<>> => (t[1] \notin WhiteSpace /\ t[Len(t)] \notin WhiteSpace)
    /\ \E l \in 0..Len(s) : \E r \in 0..(Len(s) - l) :
           /\ Len(t) = Len(s) - l - r
           /\ \A k \in 1..l : s[k] \in WhiteSpace
           /\ \A k \in (Len(s) - r + 1)..Len(s) : s[k] \in WhiteSpace
           /\ \A k \in 1..Len(t) : t[k] = s[l + k]

IsSanitized(data, form) ==
    /\ IsTrimOf(data.name, form.name)
    /\ IsTrimOf(data.email, form.email)
    /\ IsTrimOf(data.message, form.message)

\* C3: a submit whose validation reports a failing field halts as Invalid with
\* the ValidationResult stored for display: no remote call is issued, no
\* result is produced, no log or alert runs, isSubmitting is not set.
C3_InvalidSubmitHaltsBeforeTheRemoteCall ==
    (attempt.pc # "idle" /\ ~validateContactForm(attempt.form).isValid) =>
        /\ attempt.pc = "done"
        /\ attempt.trace = <<"Validating", "Invalid">>
        /\ validationResult = validateContactForm(attempt.form)
        /\ Len(validationResult.errors) > 0
        /\ runs = <<>>
        /\ effects = <<>>
        /\ ~isSubmitting

\* a submit of a form with a failing field has been handled
C3_Witness ==
    /\ attempt.pc = "done"
    /\ attempt.trace = <<"Validating", "Invalid">>
    /\ IsBlank(attempt.form.name)
    /\ ~validationResult.isValid

\* C4: for a form that passes validateContactForm, when the remote call
\* resolves the attempt reaches Success with a result of success = TRUE whose
\* data is the form with every field trimmed, and the logged submission
\* carries exactly that name, email and message.
C4_ValidFormSucceedsWithSanitizedData ==
    ( /\ validateContactForm(attempt.form).isValid
      /\ Len(runs) = 1
      /\ runs[1].api = "resolve" ) =>
        /\ attempt.trace = <<"Validating", "Submitting", "Success">>
        /\ Len(runs[1].result) = 1
        /\ runs[1].result[1].success
        /\ IsSanitized(runs[1].result[1].data, attempt.form)
        /\ Cardinality(At(1, "console.log")) = 1
        /\ \A p \in At(1, "console.log") :
               /\ effects[p].payload.name = runs[1].result[1].data.name
               /\ effects[p].payload.email = runs[1].result[1].data.email
               /\ effects[p].payload.message = runs[1].result[1].data.message

\* a valid form with a padded field was submitted and its remote call resolved
C4_Witness ==
    /\ attempt.pc = "done"
    /\ Len(runs) = 1
    /\ runs[1].api = "resolve"
    /\ attempt.form.name # runs[1].result[1].data.name
    /\ At(1, "console.log") # {}

\* the latest pipeline run ended with a result of success = TRUE
Succeeded == Len(runs) = 1 /\ Len(runs[1].result) = 1 /\ runs[1].result[1].success

\* C6: when a submission completes, a failed one (a result with success =
\* FALSE, or a throw) leaves the form data as it was and shows an error
\* notice; a successful one replaces the form data by the empty record and
\* the validation result by the valid one.
C6_CompletionKeepsFormOnFailureResetsOnSuccess ==
    [][ (attempt.pc \in {"importing", "awaiting"} /\ attempt'.pc = "done") =>
            IF Len(runs') = 1 /\ Len(runs'[1].result) = 1 /\ runs'[1].result[1].success
            THEN /\ formData' = [name |-> <<>>, email |-> <<>>, message |-> <<>>]
                 /\ validationResult' = Valid
            ELSE /\ formData' = formData
                 /\ \E p \in (Len(effects) + 1)..Len(effects') :
                        /\ effects'[p].kind = "alert"
                        /\ effects'[p].payload # showSuccessAlert.payload
       ]_vars

\* a submission has failed and the form still holds what the user entered
C6_Witness ==
    /\ attempt.pc = "done"
    /\ attempt.trace = <<"Validating", "Submitting", "Failed">>
    /\ ~Succeeded
    /\ formData = attempt.form
    /\ \E p \in 1..Len(effects) : IsErrorAlert(effects[p])

Paths ==
    { <<"Validating", "Invalid">>,
      <<"Validating", "Submitting">>,
      <<"Validating", "Submitting", "Success">>,
      <<"Validating", "Submitting", "Failed">> }

Terminal(trace) ==
    trace = <<>> \/ trace[Len(trace)] \in {"Invalid", "Success", "Failed"}

IsPrefix(s, t) == Len(s) <= Len(t) /\ \A k \in 1..Len(s) : s[k] = t[k]

\* C7: a submit attempt moves only along Idle -> Validating -> (Invalid |
\* Submitting) -> (Success | Failed): Submitting is entered from Validating
\* and only with all fields valid, Success and Failed only from Submitting,
\* and a new attempt starts only from Idle, once the previous one has ended.
C7_AttemptFollowsTheStateMachine ==
    /\ [] ( /\ attempt.trace = <<>> \/ attempt.trace \in Paths
            /\ (Len(attempt.trace) >= 2 /\ attempt.trace[2] = "Submitting") =>
                   validateContactForm(attempt.form).isValid
            /\ (Len(attempt.trace) >= 2 /\ attempt.trace[2] = "Invalid") =>
                   ~validateContactForm(attempt.form).isValid
            /\ isSubmitting <=> attempt.trace = <<"Validating", "Submitting">> )
    /\ [][ attempt'.trace # attempt.trace =>
               \/ /\ IsPrefix(attempt.trace, attempt'.trace)
                  /\ attempt.trace # <<>>
                  /\ Len(attempt'.trace) = Len(attempt.trace) + 1
               \/ /\ Terminal(attempt.trace)
                  /\ Len(attempt'.trace) = 2
                  /\ attempt'.trace[1] = "Validating"
          ]_vars

\* an attempt went through Validating and Submitting and ended in Success
C7_Witness ==
    /\ attempt.trace = <<"Validating", "Submitting", "Success">>
    /\ attempt.pc = "done"
    /\ ~isSubmitting

----------------------------------------------------------------------------
(* Order and short-circuit of the field checks                              *)

FieldRank(field) ==
    CASE field = "Name" -> 1 [] field = "Email" -> 2 [] field = "Message" -> 3

\* the errors of the returned call whose message has text as its second part
ErrorsSaying(text) ==
    { k \in 1..Len(Out.errors) : Out.errors[k].message[2] = text }

\* C11: the errors of validateContactForm(form) come in the order Name, Email,
\* Message, one at most per field; the email-format error appears only when
\* the email passed the required check, the minimum-length error only when
\* the message passed the required check.
C11_ErrorsInFieldOrderWithShortCircuit ==
    Returned("validateContactForm") =>
        /\ \A j, k \in 1..Len(Out.errors) :
               j < k => FieldRank(Out.errors[j].field) < FieldRank(Out.errors[k].field)
        /\ ErrorsSaying(" must be a valid email address") # {} =>
               /\ ~IsBlank(call.arg.email)
               /\ \A k \in 1..Len(Out.errors) :
                      Out.errors[k].field = "Email" =>
                          Out.errors[k].message[2] # " is required"
        /\ ErrorsSaying(" must be at least ") # {} =>
               /\ ~IsBlank(call.arg.message)
               /\ \A k \in 1..Len(Out.errors) :
                      Out.errors[k].field = "Message" =>
                          Out.errors[k].message[2] # " is required"
        /\ \A k \in ErrorsSaying(" must be a valid email address") :
               Out.errors[k].field = "Email"
        /\ \A k \in ErrorsSaying(" must be at least ") :
               /\ Out.errors[k].field = "Message"
               /\ Out.errors[k].message[3] = MinMessageLength

\* a form failed on all three fields, the email on its format and the message
\* on its length
C11_Witness ==
    /\ Returned("validateContactForm")
    /\ Len(Out.errors) = 3
    /\ ErrorsSaying(" must be a valid email address") # {}
    /\ ErrorsSaying(" must be at least ") # {}

----------------------------------------------------------------------------
(* src/utils/error.ts: Result primitives                                   *)
(*                                                                         *)
(* A function handed to a combinator is data (its source text) and         *)
(* ApplyFn evaluates it.  A combinator call is modelled by what it returns *)
(* and by the arguments it invoked its callback with, in order.            *)

success(data) == [success |-> TRUE, data |-> data]

failure(error) == [success |-> FALSE, error |-> error]

ApplyFn(fn, x) ==
    CASE fn = "(x) => x * 2"            -> x * 2
      [] fn = "(x) => x + 1"            -> x + 1
      [] fn = "(x) => success(x * 2)"   -> success(x * 2)
      [] fn = "() => failure(error)"    -> failure("chain error")
      [] fn = "(x) => x > 0 ? success(x - 1) : failure(error)" ->
             IF x > 0 THEN success(x - 1) ELSE failure("chain error")

Evaluation(returns, invoked) == [returns |-> returns, invoked |-> invoked]

\* a map that leaves the data of a success as it was
mapResultIdentity(result, fn) ==
    IF result.success
    THEN Evaluation(success(result.data), <<result.data>>)
    ELSE Evaluation(result, <<>>)

mapResult(result, fn) ==
    IF result.success
    THEN Evaluation(success(ApplyFn(fn, result.data)), <<result.data>>)
    ELSE Evaluation(result, <<>>)

\* a chain that drops a failure of fn and keeps the result it was given
chainResultSwallowsFailure(result, fn) ==
    IF result.success
    THEN Evaluation(IF ApplyFn(fn, result.data).success
                    THEN ApplyFn(fn, result.data) ELSE result,
                    <<result.data>>)
    ELSE Evaluation(result, <<>>)

chainResult(result, fn) ==
    IF result.success
    THEN Evaluation(ApplyFn(fn, result.data), <<result.data>>)
    ELSE Evaluation(result, <<>>)

\* chainResult(... chainResult(chainResult(result, fns[1]), fns[2]) ..., fns[n])
RECURSIVE ChainAll(_, _)
ChainAll(result, fns) ==
    IF fns = <<>> THEN Evaluation(result, <<>>)
    ELSE LET before == ChainAll(result, SubSeq(fns, 1, Len(fns) - 1))
             last   == chainResult(before.returns, fns[Len(fns)])
         IN  Evaluation(last.returns,
                        before.invoked
                            \o [k \in 1..Len(last.invoked) |->
                                   [step |-> Len(fns), arg |-> last.invoked[k]]])

\* an extraction that hands out the fallback whatever the result
getResultDataFallbackOnly(result, fallback) == fallback

getResultData(result, fallback) == IF result.success THEN result.data ELSE fallback

\* an extraction that hands out the fallback for a failure too
getResultErrorFallbackOnly(result, fallback) == fallback

getResultError(result, fallback) == IF result.success THEN fallback ELSE result.error

----------------------------------------------------------------------------
(* The calls of the Result primitives                                       *)

Results ==
    { success(v) : v \in 0..MaxValue } \cup { failure(e) : e \in {"test error", "other error"} }

MapFns == { "(x) => x * 2", "(x) => x + 1" }

ChainFns ==
    { "(x) => success(x * 2)", "() => failure(error)",
      "(x) => x > 0 ? success(x - 1) : failure(error)" }

ChainFnSeqs == UNION { [1..n -> ChainFns] : n \in 1..MaxSteps }

ResultCalls ==
    CallsOf("mapResult", [result : Results, fn : MapFns])
        \cup CallsOf("chainResult", [result : Results, fns : ChainFnSeqs])
        \cup CallsOf("getResultData", [result : Results, fallback : 0..MaxValue])
        \cup CallsOf("getResultError",
                     [result : Results, fallback : {"test error", "fallback"}])

CallMapResult ==
    /\ Pending("mapResult")
    /\ Return(mapResult(call.arg.result, call.arg.fn))

CallChainResult ==
    /\ Pending("chainResult")
    /\ Return(ChainAll(call.arg.result, call.arg.fns))

CallGetResultData ==
    /\ Pending("getResultData")
    /\ Return(getResultData(call.arg.result, call.arg.fallback))

CallGetResultError ==
    /\ Pending("getResultError")
    /\ Return(getResultError(call.arg.result, call.arg.fallback))

InitResult ==
    /\ call \in ResultCalls
    /\ Mounted

NextResult ==
    \/ CallMapResult
    \/ CallChainResult
    \/ CallGetResultData
    \/ CallGetResultError

SpecResult == InitResult /\ [][NextResult]_vars

----------------------------------------------------------------------------
(* Properties of the Result primitives                                      *)

\* C12: mapResult of a success is a success carrying fn of its value;
\* mapResult of a failure is that same failure, and fn is not invoked.
C12_MapResultMapsSuccessPassesFailure ==
    Returned("mapResult") =>
        IF call.arg.result.success
        THEN /\ Out.returns.success
             /\ Out.returns.data = ApplyFn(call.arg.fn, call.arg.result.data)
             /\ Out.invoked = <<call.arg.result.data>>
        ELSE /\ ~Out.returns.success
             /\ Out.returns.error = call.arg.result.error
             /\ DOMAIN Out.returns = DOMAIN call.arg.result
             /\ Out.invoked = <<>>

\* a success whose value fn changes has been mapped
C12_Witness ==
    /\ Returned("mapResult")
    /\ call.arg.result.success
    /\ Out.returns.data # call.arg.result.data

\* the result the k-th step of the returned chain call handed back
StepReturn(k) == ApplyFn(call.arg.fns[k], Out.invoked[k].arg)

\* C13: chainResult of a failure is that failure and fn is not invoked;
\* chainResult of a success is fn of its value, so a failure of fn becomes
\* the result.  A chain of steps runs its steps in order up to the first
\* failure, returns that failure, and runs no step after it.
C13_ChainStopsAtTheFirstFailure ==
    Returned("chainResult") =>
        LET start == call.arg.result
            fns   == call.arg.fns
            n     == Len(Out.invoked)
        IN  /\ n <= Len(fns)
            /\ ~start.success => (n = 0 /\ Out.returns = start)
            /\ start.success => (n >= 1 /\ Out.invoked[1].arg = start.data)
            /\ \A k \in 1..n : Out.invoked[k].step = k
            /\ \A k \in 2..n :
                   /\ StepReturn(k - 1).success
                   /\ Out.invoked[k].arg = StepReturn(k - 1).data
            /\ (1 <= n /\ n < Len(fns)) => ~StepReturn(n).success
            /\ n >= 1 => Out.returns = StepReturn(n)

\* a chain started from a success failed at its first step and skipped the rest
C13_Witness ==
    /\ Returned("chainResult")
    /\ call.arg.result.success
    /\ Len(call.arg.fns) > 1
    /\ Len(Out.invoked) = 1
    /\ ~Out.returns.success

\* C14: getResultData returns the value of a success and the fallback
\* otherwise; getResultError returns the error of a failure and the fallback
\* otherwise; both return for every Result and fallback.
C14_ExtractionIsTotal ==
    /\ Returned("getResultData") =>
           Out = IF call.arg.result.success THEN call.arg.result.data
                 ELSE call.arg.fallback
    /\ Returned("getResultError") =>
           Out = IF call.arg.result.success THEN call.arg.fallback
                 ELSE call.arg.result.error
    /\ Pending("getResultData") => ENABLED CallGetResultData
    /\ Pending("getResultError") => ENABLED CallGetResultError

\* the fallback was handed out for a failure
C14_Witness ==
    /\ Returned("getResultData")
    /\ ~call.arg.result.success
    /\ Out = call.arg.fallback

----------------------------------------------------------------------------
(* Properties of the field validators                                       *)

\* C15: validateRequired(value, fieldName) is invalid iff the trimmed value
\* has length 0, and when invalid it carries exactly the one error
\* {field: fieldName, message: "<fieldName> is required"}.
C15_RequiredFailsIffTrimmedEmpty ==
    Returned("validateRequired") =>
        /\ ~Out.isValid <=> TrimmedLength(call.arg.value) = 0
        /\ ~Out.isValid =>
               Out.errors = << [field   |-> call.arg.fieldName,
                                message |-> <<call.arg.fieldName, " is required">>] >>

\* a value of blanks only was refused
C15_Witness ==
    /\ Returned("validateRequired")
    /\ Len(call.arg.value) > 0
    /\ IsBlank(call.arg.value)
    /\ ~Out.isValid

\* C16: validateEmail(value, fieldName) is valid iff the whole value is
\* local '@' domain '.' rest with non-empty parts free of whitespace and
\* '@'; otherwise it carries exactly the one error
\* "<fieldName> must be a valid email address".  The empty string, a value
\* without '@', a value without '.' after the '@' and a value holding
\* whitespace are refused.
C16_EmailValidIffWholeValueHasTheShape ==
    Returned("validateEmail") =>
        LET v == call.arg.value
        IN  /\ Out.isValid <=> HasEmailShape(v)
            /\ ~Out.isValid =>
                   Out.errors =
                       << [field   |-> call.arg.fieldName,
                           message |-> <<call.arg.fieldName,
                                         " must be a valid email address">>] >>
            /\ v = <<>> => ~Out.isValid
            /\ (\A i \in 1..Len(v) : v[i] # "@") => ~Out.isValid
            /\ (\A i, j \in 1..Len(v) : (v[i] = "@" /\ i < j) => v[j] # ".")
                   => ~Out.isValid
            /\ (\E i \in 1..Len(v) : v[i] \in WhiteSpace) => ~Out.isValid

\* a value that has the shape but for a blank in front was refused
C16_Witness ==
    /\ Returned("validateEmail")
    /\ Len(call.arg.value) > 1
    /\ call.arg.value[1] \in WhiteSpace
    /\ HasEmailShape(Tail(call.arg.value))
    /\ ~Out.isValid

\* C17: validateMinLength(value, fieldName, minLength) is invalid iff the
\* length of the value as given is below minLength, and when invalid it
\* carries exactly the one error
\* "<fieldName> must be at least <minLength> characters long".
C17_MinLengthMeasuresTheUntrimmedValue ==
    Returned("validateMinLength") =>
        /\ ~Out.isValid <=> Len(call.arg.value) < call.arg.minLength
        /\ ~Out.isValid =>
               Out.errors =
                   << [field   |-> call.arg.fieldName,
                       message |-> <<call.arg.fieldName, " must be at least ",
                                     call.arg.minLength, " characters long">>] >>

\* a value of exactly minLength characters, blanks at its ends included, passed
C17_Witness ==
    /\ Returned("validateMinLength")
    /\ Len(call.arg.value) = call.arg.minLength
    /\ call.arg.minLength > 1
    /\ call.arg.value[1] \in WhiteSpace
    /\ Out.isValid

----------------------------------------------------------------------------
(* src/utils/form.ts: the helpers on ContactFormData                        *)
(*                                                                         *)
(* updateFormField is modelled by the record it returns and by the record  *)
(* its parameter is bound to once it has returned.                         *)

Fields == {"name", "email", "message"}

\* an update that assigns the field of the record it was given
updateFormFieldInPlace(form, field, value) ==
    [returns  |-> [form EXCEPT ![field] = value],
     argument |-> [form EXCEPT ![field] = value]]

\* ({ ...formData, [field]: value })
updateFormField(form, field, value) ==
    [returns  |-> [k \in DOMAIN form \cup {field} |->
                       IF k = field THEN value ELSE form[k]],
     argument |-> form]

\* a truthy string is a non-empty one
Truthy(s) == Len(s) > 0

\* a || b
Or(a, b) == IF Truthy(a) THEN a ELSE b

\* a && b
And(a, b) == IF Truthy(a) THEN b ELSE a

hasFormData(form) ==
    Truthy(Or(Or(Trim(form.name), Trim(form.email)), Trim(form.message)))

\* a completeness test satisfied by any one field
isFormCompleteAny(form) == hasFormData(form)

isFormComplete(form) ==
    Truthy(And(And(Trim(form.name), Trim(form.email)), Trim(form.message)))

----------------------------------------------------------------------------
(* The calls of the form helpers, next to the edits of the Contact form     *)

\* field values: empty, blank, bare and padded
FieldSamples ==
    { <<>>, Spaces(MaxPad + 1), NameA, Spaces(MaxPad + 1) \o NameA \o Spaces(MaxPad) }

FormSamples == [name : FieldSamples, email : FieldSamples, message : FieldSamples]

FormCalls ==
    CallsOf("updateFormField",
            [form : FormSamples, field : Fields, value : {<<>>, NameB}])
        \cup CallsOf("sanitizeFormData", FormSamples)
        \cup CallsOf("hasFormData", FormSamples)
        \cup CallsOf("isFormComplete", FormSamples)

CallUpdateFormField ==
    /\ Pending("updateFormField")
    /\ Return(updateFormField(call.arg.form, call.arg.field, call.arg.value))

CallSanitizeFormData ==
    /\ Pending("sanitizeFormData")
    /\ Return(sanitizeFormData(call.arg))

\* sanitizeFormData applied to what sanitizeFormData returned
CallSanitizeFormDataAgain ==
    /\ Returned("sanitizeFormData")
    /\ Len(call.out) = 1
    /\ call' = [call EXCEPT !.out = Append(@, sanitizeFormData(call.out[1]))]
    /\ UNCHANGED <<formData, validationResult, isSubmitting, attempt, runs, effects>>

CallHasFormData ==
    /\ Pending("hasFormData")
    /\ Return(hasFormData(call.arg))

CallIsFormComplete ==
    /\ Pending("isFormComplete")
    /\ Return(isFormComplete(call.arg))

InitForm ==
    /\ call \in FormCalls
    /\ Mounted

NextForm ==
    \/ CallUpdateFormField
    \/ CallSanitizeFormData
    \/ CallSanitizeFormDataAgain
    \/ CallHasFormData
    \/ CallIsFormComplete
    \/ \E field \in DOMAIN FieldInputs : \E value \in FieldInputs[field] :
           HandleFieldChange(field, value)

SpecForm == InitForm /\ [][NextForm]_vars

----------------------------------------------------------------------------
(* Properties of the form helpers                                           *)

\* after is before with the field replaced by value and nothing else touched
ReplacesOneField(after, before, field, value) ==
    /\ DOMAIN after = Fields
    /\ after[field] = value
    /\ \A other \in Fields \ {field} : after[other] = before[other]

\* C18: updateFormField(form, field, value) returns a record whose named
\* field is value and whose other two fields are those of form, and leaves
\* form as it was; every edit made by the change handler of Contact
\* replaces the named field of formData by the value and keeps the others.
C18_UpdateReplacesExactlyTheNamedField ==
    /\ [](Returned("updateFormField") =>
              /\ ReplacesOneField(Out.returns, call.arg.form,
                                  call.arg.field, call.arg.value)
              /\ Out.argument = call.arg.form)
    /\ [](\A field \in Fields : \A value \in FieldInputs[field] :
              ENABLED ( /\ HandleFieldChange(field, value)
                        /\ ReplacesOneField(formData', formData, field, value) ))
    /\ [][ \A field \in Fields :
               formData'[field] # formData[field] =>
                   \A other \in Fields \ {field} : formData'[other] = formData[other] ]_vars

\* a field of a form with a second non-empty field was replaced by a new value
C18_Witness ==
    /\ Returned("updateFormField")
    /\ Out.returns # call.arg.form
    /\ \E other \in Fields \ {call.arg.field} : call.arg.form[other] # <<>>
    /\ \E field \in Fields : \E other \in Fields \ {field} :
           formData[field] # <<>> /\ formData[other] # <<>>

\* C19: sanitizeFormData(sanitizeFormData(f)) equals sanitizeFormData(f) field
\* by field, and every field of sanitizeFormData(f) is the trimmed value of
\* the same field of f.
C19_SanitizeTrimsAndIsIdempotent ==
    Returned("sanitizeFormData") =>
        /\ DOMAIN call.out[1] = Fields
        /\ \A field \in Fields : IsTrimOf(call.out[1][field], call.arg[field])
        /\ Len(call.out) = 2 =>
               /\ DOMAIN call.out[2] = Fields
               /\ \A field \in Fields : call.out[2][field] = call.out[1][field]

\* a form with padded and blank fields was sanitized twice
C19_Witness ==
    /\ Returned("sanitizeFormData")
    /\ Len(call.out) = 2
    /\ call.out[1] # call.arg
    /\ \E field \in Fields : call.arg[field] # <<>> /\ call.out[1][field] = <<>>
    /\ \E field \in Fields : call.out[1][field] # <<>>

\* C20: isFormComplete(form) is true iff all three trimmed fields are
\* non-empty; hasFormData(form) is true iff at least one trimmed field is
\* non-empty.
C20_CompleteIffAllHasDataIffAny ==
    /\ Returned("isFormComplete") =>
           (Out <=> \A field \in Fields : TrimmedLength(call.arg[field]) > 0)
    /\ Returned("hasFormData") =>
           (Out <=> \E field \in Fields : TrimmedLength(call.arg[field]) > 0)

\* a form with two filled fields and one field of blanks is not complete
C20_Witness ==
    /\ Returned("isFormComplete")
    /\ \E field \in Fields :
           /\ call.arg[field] # <<>>
           /\ IsBlank(call.arg[field])
           /\ \A other \in Fields \ {field} : ~IsBlank(call.arg[other])
    /\ ~Out

----------------------------------------------------------------------------
(* src/utils/assert.ts, src/utils/pipe.ts, src/utils/seo.ts                *)
(*                                                                         *)
(* A call that may throw is modelled by its completion: the value it       *)
(* returns or the error it throws.  An options object is a function from   *)
(* the keys it holds to their values.                                      *)

Returns(value) == [threw |-> FALSE, value |-> value]

Throws(error) == [threw |-> TRUE, error |-> error]

\* the value undefined, told apart from every string of characters
Undefined == <<"undefined">>

\* options.key
Get(options, key) == IF key \in DOMAIN options THEN options[key] ELSE Undefined

\* truthiness of a string or undefined
TruthyOption(v) == v # Undefined /\ Len(v) > 0

\* custom || fallback
OrDefault(custom, fallback) == IF TruthyOption(custom) THEN custom ELSE fallback

\* { ...acc, ...current }
Spread(acc, current) ==
    [k \in DOMAIN acc \cup DOMAIN current |->
        IF k \in DOMAIN current THEN current[k] ELSE acc[k]]

\* the assertion passes
assertNotEmptyString(value) == Len(Trim(value)) # 0

Home == <<"H", "o", "m", "e">>

DefaultSiteName ==
    << "R", "e", "a", "c", "t", " ", "S", "t", "a", "t", "i", "c",
       " ", "S", "i", "t", "e", " ", "T", "e", "m", "p", "l", "a",
       "t", "e" >>

generatePageTitle(pageTitle, siteName) ==
    IF ~assertNotEmptyString(pageTitle)
    THEN Throws("Assertion failed: Expected non-empty string. Page title cannot be empty")
    ELSE IF ~assertNotEmptyString(siteName)
    THEN Throws("Assertion failed: Expected non-empty string. Site name cannot be empty")
    ELSE Returns(IF pageTitle = Home THEN siteName
                 ELSE pageTitle \o <<" ", "-", " ">> \o siteName)

getDefaultKeywords ==
    << "r", "e", "a", "c", "t", ",", " ", "t", "y", "p", "e", "s",
       "c", "r", "i", "p", "t", ",", " ", "v", "i", "t", "e", ",",
       " ", "t", "a", "i", "l", "w", "i", "n", "d", ",", " ", "a",
       "w", "s", ",", " ", "s", "t", "a", "t", "i", "c", " ", "s",
       "i", "t", "e" >>

getDefaultOGImage ==
    << "/", "o", "g", "-", "i", "m", "a", "g", "e", ".", "j", "p",
       "g" >>

generateOGTitle(title, customOGTitle) ==
    IF TruthyOption(customOGTitle) THEN Returns(customOGTitle)
    ELSE generatePageTitle(title, DefaultSiteName)

generateOGDescription(description, customOGDescription) ==
    OrDefault(customOGDescription, description)

\* a builder that copies canonicalUrl whatever it holds
generateSEOPropsAlwaysCanonical(title, description, options) ==
    IF generatePageTitle(title, DefaultSiteName).threw
    THEN generatePageTitle(title, DefaultSiteName)
    ELSE Returns(
        [k \in {"title", "description", "keywords", "ogTitle", "ogDescription",
                "ogImage", "canonicalUrl"} |->
            CASE k = "title"         -> generatePageTitle(title, DefaultSiteName).value
              [] k = "description"   -> description
              [] k = "keywords"      -> OrDefault(Get(options, "keywords"), getDefaultKeywords)
              [] k = "ogTitle"       -> generateOGTitle(title, Get(options, "ogTitle")).value
              [] k = "ogDescription" ->
                     generateOGDescription(description, Get(options, "ogDescription"))
              [] k = "ogImage"       -> OrDefault(Get(options, "ogImage"), getDefaultOGImage)
              [] k = "canonicalUrl"  -> Get(options, "canonicalUrl")])

generateSEOProps(title, description, options) ==
    LET pageTitle == generatePageTitle(title, DefaultSiteName)
        ogTitle   == generateOGTitle(title, Get(options, "ogTitle"))
        baseProps ==
            [k \in {"title", "description", "keywords", "ogTitle", "ogDescription",
                    "ogImage"} |->
                CASE k = "title"         -> pageTitle.value
                  [] k = "description"   -> description
                  [] k = "keywords"      ->
                         OrDefault(Get(options, "keywords"), getDefaultKeywords)
                  [] k = "ogTitle"       -> ogTitle.value
                  [] k = "ogDescription" ->
                         generateOGDescription(description, Get(options, "ogDescription"))
                  [] k = "ogImage"       ->
                         OrDefault(Get(options, "ogImage"), getDefaultOGImage)]
    IN  IF pageTitle.threw THEN pageTitle
        ELSE IF ogTitle.threw THEN ogTitle
        ELSE IF TruthyOption(Get(options, "canonicalUrl"))
        THEN Returns(Spread(baseProps,
                            [k \in {"canonicalUrl"} |-> Get(options, "canonicalUrl")]))
        ELSE Returns(baseProps)

\* pipe(value, fn1): fn1(value)
createRouteSEO(title, description, customOptions) ==
    generateSEOProps(title, description, customOptions)

\* a merge in which the first set holding a key wins
RECURSIVE mergeSEOOptionsFirstWins(_)
mergeSEOOptionsFirstWins(options) ==
    IF options = <<>> THEN <<>>
    ELSE Spread(mergeSEOOptionsFirstWins(Tail(options)), Head(options))

\* options.reduce((acc, current) => ({ ...acc, ...current }), {})
RECURSIVE mergeSEOOptions(_)
mergeSEOOptions(options) ==
    IF options = <<>> THEN <<>>
    ELSE Spread(mergeSEOOptions(SubSeq(options, 1, Len(options) - 1)),
                options[Len(options)])

----------------------------------------------------------------------------
(* The calls of the SEO functions                                           *)

TitleValues ==
    { <<>>, Spaces(MaxPad), Home, <<"h", "o", "m", "e">>, Home \o Spaces(1),
      <<"A", "b", "o", "u", "t">> }

SiteNameValues == { <<>>, Spaces(MaxPad), <<"X">>, DefaultSiteName }

DescriptionValues == { <<"d">> }

OptionKeys == {"keywords", "ogTitle", "ogDescription", "ogImage", "canonicalUrl"}

\* options objects: a key is absent, empty or set; canonicalUrl may also be
\* present and undefined
OptionsValues ==
    { o \in UNION { [K -> {Undefined, <<>>, <<"c">>}] : K \in SUBSET OptionKeys } :
        \A k \in DOMAIN o : o[k] = Undefined => k = "canonicalUrl" }

MergeSets ==
    UNION { [K -> {<<"a">>, <<"b">>}] : K \in SUBSET {"keywords", "ogTitle"} }

MergeSeqs == UNION { [1..n -> MergeSets] : n \in 0..MaxSets }

SEOCalls ==
    CallsOf("generatePageTitle", [pageTitle : TitleValues, siteName : SiteNameValues])
        \cup CallsOf("generateSEOProps",
                     [title : TitleValues, description : DescriptionValues,
                      options : OptionsValues])
        \cup CallsOf("createRouteSEO",
                     [title : {Home, <<>>}, description : DescriptionValues,
                      options : OptionsValues])
        \cup CallsOf("mergeSEOOptions", MergeSeqs)

CallGeneratePageTitle ==
    /\ Pending("generatePageTitle")
    /\ Return(generatePageTitle(call.arg.pageTitle, call.arg.siteName))

CallGenerateSEOProps ==
    /\ Pending("generateSEOProps")
    /\ Return(generateSEOProps(call.arg.title, call.arg.description, call.arg.options))

CallCreateRouteSEO ==
    /\ Pending("createRouteSEO")
    /\ Return(createRouteSEO(call.arg.title, call.arg.description, call.arg.options))

CallMergeSEOOptions ==
    /\ Pending("mergeSEOOptions")
    /\ Return(mergeSEOOptions(call.arg))

InitSEO ==
    /\ call \in SEOCalls
    /\ Mounted

NextSEO ==
    \/ CallGeneratePageTitle
    \/ CallGenerateSEOProps
    \/ CallCreateRouteSEO
    \/ CallMergeSEOOptions

SpecSEO == InitSEO /\ [][NextSEO]_vars

----------------------------------------------------------------------------
(* Properties of the SEO functions                                          *)

\* t is "<p> - <s>"
IsTitleOf(t, p, s) ==
    /\ Len(t) = Len(p) + 3 + Len(s)
    /\ \A k \in 1..Len(p) : t[k] = p[k]
    /\ t[Len(p) + 1] = " " /\ t[Len(p) + 2] = "-" /\ t[Len(p) + 3] = " "
    /\ \A k \in 1..Len(s) : t[Len(p) + 3 + k] = s[k]

\* t is what the title rule gives for p and s
FollowsTitleRule(t, p, s) == IF p = Home THEN t = s ELSE IsTitleOf(t, p, s)

\* C21: for every pageTitle and siteName, generatePageTitle returns siteName
\* when pageTitle is exactly "Home" and "<pageTitle> - <siteName>" otherwise.
C21_TitleIsSiteNameForHomeElseJoined ==
    Returned("generatePageTitle") =>
        /\ ~Out.threw
        /\ FollowsTitleRule(Out.value, call.arg.pageTitle, call.arg.siteName)

\* what holds of generatePageTitle: it throws iff pageTitle or siteName is
\* blank, and follows the title rule otherwise
TitleRuleHoldsUnlessAnArgumentIsBlank ==
    Returned("generatePageTitle") =>
        /\ Out.threw <=> (IsBlank(call.arg.pageTitle) \/ IsBlank(call.arg.siteName))
        /\ ~Out.threw =>
               FollowsTitleRule(Out.value, call.arg.pageTitle, call.arg.siteName)

\* options holds a non-empty string under key
Supplies(options, key) ==
    /\ key \in DOMAIN options
    /\ options[key] # Undefined
    /\ options[key] # <<>>

\* C22: the record returned by generateSEOProps and by createRouteSEO has a
\* canonicalUrl key iff options.canonicalUrl is truthy, and then the key
\* holds options.canonicalUrl; otherwise the key is absent.
C22_CanonicalUrlKeyIffTruthy ==
    ((Returned("generateSEOProps") \/ Returned("createRouteSEO")) /\ ~Out.threw) =>
        /\ "canonicalUrl" \in DOMAIN Out.value
               <=> Supplies(call.arg.options, "canonicalUrl")
        /\ "canonicalUrl" \in DOMAIN Out.value =>
               Out.value["canonicalUrl"] = call.arg.options["canonicalUrl"]

\* options held a canonicalUrl key that was empty or undefined, and the
\* returned record has no such key
C22_Witness ==
    /\ Returned("generateSEOProps")
    /\ ~Out.threw
    /\ "canonicalUrl" \in DOMAIN call.arg.options
    /\ "canonicalUrl" \notin DOMAIN Out.value

\* the default of an optional key
DefaultOf(key, title, description) ==
    CASE key = "keywords"      -> getDefaultKeywords
      [] key = "ogTitle"       -> IF title = Home THEN DefaultSiteName
                                  ELSE title \o <<" ", "-", " ">> \o DefaultSiteName
      [] key = "ogDescription" -> description
      [] key = "ogImage"       -> getDefaultOGImage

OverridableKeys == {"keywords", "ogTitle", "ogDescription", "ogImage"}

\* C23: generateSEOProps returns title = generatePageTitle(title) and
\* description = description; keywords, ogTitle, ogDescription and ogImage
\* hold the value of options whenever options has the key and their default
\* otherwise.
C23_OptionsOverrideElseDefaults ==
    Returned("generateSEOProps") =>
        /\ ~Out.threw
        /\ FollowsTitleRule(Out.value["title"], call.arg.title, DefaultSiteName)
        /\ Out.value["description"] = call.arg.description
        /\ \A key \in OverridableKeys :
               Out.value[key] =
                   IF key \in DOMAIN call.arg.options THEN call.arg.options[key]
                   ELSE DefaultOf(key, call.arg.title, call.arg.description)

\* what holds of generateSEOProps: it throws iff the title is blank, and
\* otherwise an optional key holds the value of options when that value is
\* a non-empty string, and its default when it is absent or empty
OptionsOverrideOnlyWhenTruthy ==
    Returned("generateSEOProps") =>
        /\ Out.threw <=> IsBlank(call.arg.title)
        /\ ~Out.threw =>
               /\ FollowsTitleRule(Out.value["title"], call.arg.title, DefaultSiteName)
               /\ Out.value["description"] = call.arg.description
               /\ \A key \in OverridableKeys :
                      Out.value[key] =
                          IF Supplies(call.arg.options, key) THEN call.arg.options[key]
                          ELSE DefaultOf(key, call.arg.title, call.arg.description)

\* the sets of the returned merge call that hold key
Holding(key) == { i \in 1..Len(call.arg) : key \in DOMAIN call.arg[i] }

\* C24: mergeSEOOptions returns a record in which each key carries the value
\* of the last set that holds the key, a key absent from a later set keeps
\* the value of an earlier one, and merging no sets or only empty sets gives
\* the empty record.
C24_MergeLastSetWins ==
    Returned("mergeSEOOptions") =>
        /\ DOMAIN Out = UNION { DOMAIN call.arg[i] : i \in 1..Len(call.arg) }
        /\ \A key \in DOMAIN Out :
               \E i \in Holding(key) :
                   /\ \A j \in Holding(key) : j <= i
                   /\ Out[key] = call.arg[i][key]
        /\ (\A i \in 1..Len(call.arg) : DOMAIN call.arg[i] = {}) => Out = <<>>

\* a key was overridden by a later set while another key, absent from the
\* later sets, kept its earlier value
C24_Witness ==
    /\ Returned("mergeSEOOptions")
    /\ Len(call.arg) = 3
    /\ DOMAIN call.arg[1] = {"keywords"}
    /\ DOMAIN call.arg[2] = {"ogTitle"}
    /\ DOMAIN call.arg[3] = {"keywords"}
    /\ call.arg[1]["keywords"] # call.arg[3]["keywords"]
    /\ Out["keywords"] = call.arg[3]["keywords"]
    /\ Out["ogTitle"] = call.arg[2]["ogTitle"]

----------------------------------------------------------------------------
(* src/utils/error.ts: normalisation of unknown errors                      *)
(*                                                                         *)
(* A JavaScript value is a record of its type, its identity when it is an  *)
(* object, and its content: the message of an Error, the text of a string. *)

Value(type, ref, value) == [type |-> type, ref |-> ref, value |-> value]

UnknownErrorMessage == "An unknown error occurred"

\* an extraction that reads a message off whatever carries one
getErrorMessageDuckTyped(error) ==
    IF error.type \in {"Error", "string", "object"} THEN error.value
    ELSE UnknownErrorMessage

getErrorMessage(error) ==
    IF error.type = "Error" THEN error.value
    ELSE IF error.type = "string" THEN error.value
    ELSE UnknownErrorMessage

\* new Error(message): an object no argument can be
NewError(message) == Value("Error", "new", message)

toError(error) ==
    IF error.type = "Error" THEN error
    ELSE NewError(getErrorMessage(error))

----------------------------------------------------------------------------
(* The calls of getErrorMessage and toError                                 *)

MessageTexts ==
    { "", "Test error message", "String error", UnknownErrorMessage }
        \cup { "error " \o ToString(n) : n \in 0..MaxValue }

UnknownValues ==
    { Value("Error", ref, text) : ref \in {"e1", "e2"}, text \in MessageTexts }
        \cup { Value("string", "", text) : text \in MessageTexts }
        \cup { Value("object", "o1", text) : text \in MessageTexts }
        \cup { Value("number", "", ToString(n)) : n \in 0..MaxValue }
        \cup { Value("null", "", ""), Value("undefined", "", ""),
               Value("boolean", "", "false"), Value("boolean", "", "true") }

ErrorCalls ==
    CallsOf("getErrorMessage", UnknownValues) \cup CallsOf("toError", UnknownValues)

CallGetErrorMessage ==
    /\ Pending("getErrorMessage")
    /\ Return(getErrorMessage(call.arg))

CallToError ==
    /\ Pending("toError")
    /\ Return(toError(call.arg))

InitErrors ==
    /\ call \in ErrorCalls
    /\ Mounted

NextErrors ==
    \/ CallGetErrorMessage
    \/ CallToError

SpecErrors == InitErrors /\ [][NextErrors]_vars

\* the message the normalisation gives for a value
NormalMessage(v) ==
    CASE v.type = "Error"  -> v.value
      [] v.type = "string" -> v.value
      [] OTHER             -> "An unknown error occurred"

\* C25: getErrorMessage returns for every input: the message of an Error, a
\* string itself, and "An unknown error occurred" for every other value;
\* toError returns an Error input itself and otherwise a new Error whose
\* message is getErrorMessage of the input.
C25_UnknownErrorsAreNormalised ==
    /\ Pending("getErrorMessage") => ENABLED CallGetErrorMessage
    /\ Pending("toError") => ENABLED CallToError
    /\ Returned("getErrorMessage") => Out = NormalMessage(call.arg)
    /\ Returned("toError") =>
           IF call.arg.type = "Error" THEN Out = call.arg
           ELSE /\ Out.type = "Error"
                /\ Out.ref \notin { v.ref : v \in UnknownValues }
                /\ Out.value = NormalMessage(call.arg)

\* an object that is no Error but carries a message got the fixed message
C25_Witness ==
    /\ Returned("getErrorMessage")
    /\ call.arg.type = "object"
    /\ call.arg.value # UnknownErrorMessage
    /\ Out = UnknownErrorMessage

----------------------------------------------------------------------------
(* src/utils/navigation.ts and src/components/Header.tsx                    *)

createNavigationItem(name, path, current) ==
    [name |-> name, path |-> path, current |-> current]

\* a refresh that keeps an item current once it was
updateNavigationCurrentSticky(items, activePath) ==
    [i \in 1..Len(items) |->
        Spread(items[i],
               [k \in {"current"} |-> items[i].current \/ items[i].path = activePath])]

\* items.map((item) => ({ ...item, current: item.path === activePath }))
updateNavigationCurrent(items, activePath) ==
    [i \in 1..Len(items) |->
        Spread(items[i], [k \in {"current"} |-> items[i].path = activePath])]

isPathActive(itemPath, currentPath) == itemPath = currentPath

createDefaultNavigation(currentPath) ==
    updateNavigationCurrent(<< createNavigationItem("Home", "/", FALSE),
                               createNavigationItem("About", "/about", FALSE),
                               createNavigationItem("Contact", "/contact", FALSE) >>,
                            currentPath)

\* Header rendered at a location: currentPath and navigationItems
Header(pathname) ==
    [fn |-> "Header", arg |-> pathname, out |-> <<createDefaultNavigation(pathname)>>]

----------------------------------------------------------------------------
(* The calls of updateNavigationCurrent and the renders of Header           *)

Pathnames == { "/", "/about", "/contact", "/about/", "/About", "/missing" }

ItemValues ==
    { createNavigationItem("Item", path, current) :
        path \in {"/", "/about"}, current \in BOOLEAN }

ItemSeqs == UNION { [1..n -> ItemValues] : n \in 0..MaxItems }

NavigationCalls ==
    CallsOf("updateNavigationCurrent",
            [items : ItemSeqs, activePath : {"/", "/about", "/missing"}])

CallUpdateNavigationCurrent ==
    /\ Pending("updateNavigationCurrent")
    /\ Return(updateNavigationCurrent(call.arg.items, call.arg.activePath))

\* the location changes and Header renders again
Navigate(pathname) ==
    /\ call.fn = "Header"
    /\ call' = Header(pathname)
    /\ UNCHANGED <<formData, validationResult, isSubmitting, attempt, runs, effects>>

InitNavigation ==
    /\ call \in NavigationCalls \cup { Header(pathname) : pathname \in Pathnames }
    /\ Mounted

NextNavigation ==
    \/ CallUpdateNavigationCurrent
    \/ \E pathname \in Pathnames : Navigate(pathname)

SpecNavigation == InitNavigation /\ [][NextNavigation]_vars

\* the items of the rendered Header that are current
CurrentItems == { i \in 1..Len(Out) : Out[i].current }

\* C26: each item returned by updateNavigationCurrent has
\* current = (item.path = activePath) whatever its current was before, with
\* name and path unchanged and the order and length of the list kept; after
\* any sequence of path changes the default navigation has at most one
\* current item, and exactly one iff the active path is '/', '/about' or
\* '/contact'.
C26_CurrentIsDerivedFromTheActivePath ==
    /\ Returned("updateNavigationCurrent") =>
           /\ Len(Out) = Len(call.arg.items)
           /\ \A i \in 1..Len(Out) :
                  /\ DOMAIN Out[i] = {"name", "path", "current"}
                  /\ Out[i].name = call.arg.items[i].name
                  /\ Out[i].path = call.arg.items[i].path
                  /\ Out[i].current <=> (call.arg.items[i].path = call.arg.activePath)
    /\ call.fn = "Header" =>
           /\ Cardinality(CurrentItems) <= 1
           /\ Cardinality(CurrentItems) = 1 <=> call.arg \in {"/", "/about", "/contact"}
           /\ \A i \in CurrentItems : Out[i].path = call.arg

\* an item that was current and is not at the active path came back not
\* current, and an item that was not current and is at the active path came
\* back current
C26_Witness ==
    /\ Returned("updateNavigationCurrent")
    /\ \E i, j \in 1..Len(Out) :
           /\ call.arg.items[i].current /\ ~Out[i].current
           /\ ~call.arg.items[j].current /\ Out[j].current

----------------------------------------------------------------------------
(* Properties of the submit flow of Contact                                 *)

InFlight == attempt.pc \in {"importing", "awaiting"}

Settled ==
    /\ attempt.pc = "done"
    /\ attempt.trace[Len(attempt.trace)] \in {"Success", "Failed"}

\* C27: every submit that passes validation and sets isSubmitting reaches
\* Success or Failed and sets isSubmitting back to false, whether the
\* pipeline gives a success, a failure or throws; isSubmitting is never left
\* true forever.
C27_SubmitEventuallySettles ==
    /\ [](isSubmitting <=> InFlight)
    /\ InFlight ~> Settled
    /\ isSubmitting ~> ~isSubmitting

\* a submission that ended in the catch block has isSubmitting false again
C27_Witness ==
    /\ Settled
    /\ ~isSubmitting
    /\ attempt.trace = <<"Validating", "Submitting", "Failed">>
    /\ \E p \in 1..Len(effects) : effects[p].kind = "console.error" /\ effects[p].run = 0

\* the remote calls issued so far by the current submission
RemoteCalls == { p \in 1..Len(effects) : effects[p].kind = "simulateApiCall" }

\* the fields whose value the step changes
Edited == { field \in Fields : formData'[field] # formData[field] }

\* C28: at most one submission is in flight: while isSubmitting no second
\* submit starts, no second remote call is issued, and the form is not reset
\* by the user before the submission has completed, under every
\* interleaving of user events and the completion.
C28_OneSubmissionInFlight ==
    /\ [](Cardinality(RemoteCalls) <= 1 /\ Len(runs) <= 1)
    /\ [][ isSubmitting =>
              /\ attempt'.form = attempt.form
              /\ attempt'.submissionData = attempt.submissionData
              /\ attempt'.pc = "importing" => attempt.pc = "importing"
              /\ \A p \in 1..Len(effects) : p <= Len(effects') /\ effects'[p] = effects[p]
              /\ Cardinality(Edited) > 1 =>
                     /\ ~isSubmitting'
                     /\ attempt'.trace = <<"Validating", "Submitting", "Success">> ]_vars

\* a field was edited while the remote call of a submission was in flight
C28_Witness ==
    /\ isSubmitting
    /\ attempt.pc = "awaiting"
    /\ Cardinality(RemoteCalls) = 1
    /\ formData # attempt.form

\* C29: the data submitted is the sanitized snapshot of the form taken at the
\* submit: edits made while the remote call is in flight change neither the
\* data of the result nor the log, and a success resets the form to the
\* empty record whatever was edited meanwhile.
C29_SubmissionCarriesTheSnapshot ==
    /\ [](attempt.pc = "awaiting" =>
              /\ IsSanitized(runs[1].data, attempt.form)
              /\ \A p \in RemoteCalls : effects[p].payload = runs[1].data)
    /\ []((Settled /\ runs # <<>> /\ runs[1].pc = "fulfilled") =>
              /\ IsSanitized(runs[1].data, attempt.form)
              /\ runs[1].result[1].success =>
                     /\ runs[1].result[1].data = runs[1].data
                     /\ \A p \in 1..Len(effects) :
                            effects[p].kind = "console.log" =>
                                effects[p].payload = runs[1].data)
    /\ [][ attempt.pc = "awaiting" =>
              /\ attempt'.form = attempt.form
              /\ runs'[1].data = runs[1].data
              /\ (attempt'.pc = "done" /\ runs'[1].result[1].success) =>
                     formData' = createEmptyContactForm ]_vars

\* a field was edited during the remote call of a submission whose form had
\* padding to trim
C29_Witness ==
    /\ attempt.pc = "awaiting"
    /\ formData # attempt.form
    /\ runs[1].data # attempt.form
    /\ \E field \in Fields : formData[field] # <<>> /\ formData[field] # attempt.form[field]

\* C30: for every form f that validateContactForm accepts, the data
\* submitted, sanitizeFormData(f), is accepted by validateContactForm too and
\* passes the integrity check of the pipeline, so no data that would fail
\* validation reaches the remote call.
C30_SubmittedDataIsValid ==
    \A p \in RemoteCalls :
        /\ validateContactForm(effects[p].payload).isValid
        /\ ~integrityCheck(effects[p].payload).threw

\* what holds of the submitted data: it passes the integrity check, and it
\* is accepted again unless trimming took the message below the minimum
SubmittedDataIsValidUnlessTrimmedShort ==
    \A p \in RemoteCalls :
        /\ ~integrityCheck(effects[p].payload).threw
        /\ validateContactForm(effects[p].payload).isValid
               <=> Len(effects[p].payload.message) >= MinMessageLength

====
